---------------------------- MODULE Spec2Model ----------------------------
(***************************************************************************)
(* Model of SkidSteerPIDSimulator (src/pid_sim_streamlit.py): a PID        *)
(* heading controller with angle wrapping, output clamping, a run/pause    *)
(* flag and five parallel history series capped at 500 samples.            *)
(*                                                                         *)
(* The controller computes on Python floats (IEEE-754 binary64).  The      *)
(* arithmetic is modelled bit-exactly: a float is a sign, a 53-bit         *)
(* mantissa held as a little-endian sequence of 15-bit limbs, and a binary *)
(* exponent; every operation rounds to nearest, ties to even.  Zero has a  *)
(* single representation (Python's == does not tell -0.0 from 0.0, and no  *)
(* operation used here does).  Infinities, NaNs and subnormals are out of  *)
(* the range the bounded runs reach.                                       *)
(*                                                                         *)
(* Val({e : x \in {a}}) is e with x bound to the value of a: operators     *)
(* bind their arguments this way so that each is computed once.            *)
(***************************************************************************)
EXTENDS Integers, Sequences, FiniteSets, TLC

Val(S) == CHOOSE v \in S : TRUE

(***************************************************************************)
(* Natural numbers of any size: little-endian limbs, no leading zero limb. *)
(***************************************************************************)
LimbBits == 15

Base == 2 ^ LimbBits

\* a0 without its leading zero limbs
BNorm(a0) ==
  Val({ LET nz == {i \in 1..Len(a) : a[i] # 0}
        IN  IF nz = {} THEN <<>>
            ELSE SubSeq(a, 1, CHOOSE i \in nz : \A j \in nz : j <= i)
        : a \in {a0} })

RECURSIVE BigOf(_)
BigOf(n0) ==
  Val({ IF n = 0 THEN <<>> ELSE <<n % Base>> \o BigOf(n \div Base)
        : n \in {n0} })

Limb(a, i) == IF i <= Len(a) THEN a[i] ELSE 0

RECURSIVE BAddC(_, _, _, _)
BAddC(a, b, i, c) ==
  IF i > Len(a) /\ i > Len(b)
  THEN (IF c = 0 THEN <<>> ELSE <<c>>)
  ELSE Val({ <<t % Base>> \o BAddC(a, b, i + 1, t \div Base)
             : t \in {Limb(a, i) + Limb(b, i) + c} })

BAdd(a0, b0) == Val({ BAddC(a, b, 1, 0) : a \in {a0}, b \in {b0} })

RECURSIVE BSubC(_, _, _, _)
BSubC(a, b, i, c) ==
  IF i > Len(a) THEN <<>>
  ELSE Val({ IF t < 0 THEN <<t + Base>> \o BSubC(a, b, i + 1, 1)
             ELSE <<t>> \o BSubC(a, b, i + 1, 0)
             : t \in {Limb(a, i) - Limb(b, i) - c} })

\* a0 - b0, for a0 >= b0
BSub(a0, b0) == Val({ BNorm(BSubC(a, b, 1, 0)) : a \in {a0}, b \in {b0} })

RECURSIVE BCmpAt(_, _, _)
BCmpAt(a, b, i) ==
  IF i = 0 THEN 0
  ELSE IF a[i] < b[i] THEN -1
  ELSE IF a[i] > b[i] THEN 1
  ELSE BCmpAt(a, b, i - 1)

\* -1, 0 or 1 as a0 < b0, a0 = b0 or a0 > b0
BCmp(a0, b0) ==
  Val({ IF Len(a) < Len(b) THEN -1
        ELSE IF Len(a) > Len(b) THEN 1
        ELSE BCmpAt(a, b, Len(a))
        : a \in {a0}, b \in {b0} })

RECURSIVE BMulSmallC(_, _, _, _)
BMulSmallC(a, k, i, c) ==
  IF i > Len(a)
  THEN (IF c = 0 THEN <<>> ELSE <<c>>)
  ELSE Val({ <<t % Base>> \o BMulSmallC(a, k, i + 1, t \div Base)
             : t \in {a[i] * k + c} })

\* a0 * k0, for 0 <= k0 < Base
BMulSmall(a0, k0) ==
  Val({ IF k = 0 THEN <<>> ELSE BMulSmallC(a, k, 1, 0)
        : a \in {a0}, k \in {k0} })

Zeros(n) == [i \in 1..n |-> 0]

RECURSIVE BMulAt(_, _, _)
BMulAt(a, b, j) ==
  IF j > Len(b) THEN <<>>
  ELSE Val({ BAdd(IF p = <<>> THEN <<>> ELSE Zeros(j - 1) \o p,
                  BMulAt(a, b, j + 1))
             : p \in {BMulSmall(a, b[j])} })

BMul(a0, b0) ==
  Val({ IF a = <<>> \/ b = <<>> THEN <<>> ELSE BMulAt(a, b, 1)
        : a \in {a0}, b \in {b0} })

\* a0 * 2^n0
BShl(a0, n0) ==
  Val({ IF a = <<>> THEN <<>>
        ELSE Zeros(n \div LimbBits) \o BMulSmall(a, 2 ^ (n % LimbBits))
        : a \in {a0}, n \in {n0} })

\* floor(a0 / 2^n0)
BShr(a0, n0) ==
  Val({ LET d == n \div LimbBits
            p == 2 ^ (n % LimbBits)
            q == 2 ^ (LimbBits - (n % LimbBits))
        IN  IF d >= Len(a) THEN <<>>
            ELSE BNorm([i \in 1..(Len(a) - d) |->
                          (a[i + d] \div p) + (Limb(a, i + d + 1) % p) * q])
        : a \in {a0}, n \in {n0} })

RECURSIVE IntBitLen(_)
IntBitLen(n0) ==
  Val({ IF n = 0 THEN 0 ELSE 1 + IntBitLen(n \div 2) : n \in {n0} })

BBitLen(a0) ==
  Val({ IF a = <<>> THEN 0
        ELSE LimbBits * (Len(a) - 1) + IntBitLen(a[Len(a)])
        : a \in {a0} })

\* bit i0 (from 0) of a0
BBit(a0, i0) ==
  Val({ (Limb(a, (i \div LimbBits) + 1) \div (2 ^ (i % LimbBits))) % 2
        : a \in {a0}, i \in {i0} })

\* a0 mod 2^n0
BLow(a0, n0) ==
  Val({ IF n \div LimbBits >= Len(a) THEN a
        ELSE BNorm([i \in 1..((n \div LimbBits) + 1) |->
                      IF i <= n \div LimbBits THEN a[i]
                      ELSE a[i] % (2 ^ (n % LimbBits))])
        : a \in {a0}, n \in {n0} })

BOdd(a0) == Val({ a # <<>> /\ a[1] % 2 = 1 : a \in {a0} })

\* The quotient limb estimated from the top limbs of r and of the normalised
\* divisor d (top limb >= Base/2): at most 2 too big.
DivEst(r, d) ==
  Val({ IF est > Base - 1 THEN Base - 1 ELSE est
        : est \in {(Limb(r, Len(d) + 1) * Base + Limb(r, Len(d)))
                     \div d[Len(d)]} })

\* q0, or q0 - 1 when q0 * d exceeds r
DivDown(r, d, q0) ==
  Val({ IF BCmp(BMulSmall(d, q), r) > 0 THEN q - 1 ELSE q : q \in {q0} })

\* One step of schoolbook long division: bring down limb x0 below the
\* remainder r0 and produce the next quotient limb and remainder.
DivStep(r0, d0, x0) ==
  Val({ Val({ [q |-> q, r |-> BSub(r, BMulSmall(d, q))]
              : q \in {DivDown(r, d, DivDown(r, d, DivEst(r, d)))} })
        : r \in {IF r0 = <<>> /\ x0 = 0 THEN <<>> ELSE <<x0>> \o r0},
          d \in {d0} })

\* Quotient limbs and remainder of n by d, from limb i of n downwards
RECURSIVE BDivAt(_, _, _, _, _)
BDivAt(n, d, i, r, q) ==
  IF i = 0 THEN [q |-> BNorm(q), r |-> r]
  ELSE Val({ BDivAt(n, d, i - 1, st.r, <<st.q>> \o q)
             : st \in {DivStep(r, d, n[i])} })

\* [q |-> floor(n0 / d0), r |-> n0 mod d0], for d0 > 0
BDivMod(n0, d0) ==
  Val({ Val({ [q |-> res.q, r |-> BShr(res.r, sh)]
              : res \in {Val({ BDivAt(n, d, Len(n), <<>>, <<>>)
                               : n \in {BShl(n0, sh)},
                                 d \in {BShl(d0, sh)} })} })
        : sh \in {LimbBits - IntBitLen(d0[Len(d0)])} })

(***************************************************************************)
(* Python floats.  [s, e, m] is (-1)^s * m * 2^e with 2^52 <= m < 2^53,    *)
(* or zero.                                                                *)
(***************************************************************************)
MantBits == 53

FZero == [s |-> 0, e |-> 0, m |-> <<>>]

IsZero(x) == x.m = <<>>

\* q rounded up or not; a carry out of the mantissa moves the exponent
RoundUp(s, q, e, up) ==
  Val({ IF BBitLen(q1) > MantBits
        THEN [s |-> s, e |-> e + 1, m |-> BShr(q1, 1)]
        ELSE [s |-> s, e |-> e, m |-> q1]
        : q1 \in {IF up THEN BAdd(q, <<1>>) ELSE q} })

\* The float nearest to (-1)^s0 * M0 * 2^e0 (ties to even), for a natural M0
Round(s0, M0, e0) ==
  Val({ IF M = <<>> THEN FZero
        ELSE IF L <= MantBits
        THEN [s |-> s, e |-> e - (MantBits - L), m |-> BShl(M, MantBits - L)]
        ELSE Val({ RoundUp(s, q, e + (L - MantBits),
                           /\ BBit(M, L - MantBits - 1) = 1
                           /\ \/ BLow(M, L - MantBits - 1) # <<>>
                              \/ BOdd(q))
                   : q \in {BShr(M, L - MantBits)} })
        : s \in {s0}, M \in {M0}, e \in {e0}, L \in {BBitLen(M0)} })

\* float(n) for an integer n
FromInt(n) == IF n < 0 THEN Round(1, BigOf(-n), 0) ELSE Round(0, BigOf(n), 0)

FNeg(x0) ==
  Val({ IF IsZero(x) THEN x ELSE [x EXCEPT !.s = 1 - x.s] : x \in {x0} })

\* -1, 0, 1 as |x| < |y|, |x| = |y|, |x| > |y|, for nonzero x and y
MagCmp(x, y) ==
  IF x.e < y.e THEN -1
  ELSE IF x.e > y.e THEN 1
  ELSE BCmp(x.m, y.m)

\* -1, 0, 1 as x0 < y0, x0 == y0, x0 > y0
FCmp(x0, y0) ==
  Val({ IF IsZero(x) /\ IsZero(y) THEN 0
        ELSE IF IsZero(x) THEN (IF y.s = 0 THEN -1 ELSE 1)
        ELSE IF IsZero(y) THEN (IF x.s = 0 THEN 1 ELSE -1)
        ELSE IF x.s # y.s THEN (IF x.s = 0 THEN 1 ELSE -1)
        ELSE IF x.s = 0 THEN MagCmp(x, y)
        ELSE MagCmp(y, x)
        : x \in {x0}, y \in {y0} })

FLt(x, y) == FCmp(x, y) < 0

FGt(x, y) == FCmp(x, y) > 0

FLe(x, y) == FCmp(x, y) <= 0

FGe(x, y) == FCmp(x, y) >= 0

\* Past this exponent gap the smaller operand is below a quarter of the
\* larger one's last place and the sum rounds to the larger operand.
AlignGap == 60

\* The sum of nonzero x and y whose mantissas X and Y are aligned at 2^e
AddAligned(x, y, X, Y, e) ==
  IF x.s = y.s THEN Round(x.s, BAdd(X, Y), e)
  ELSE Val({ IF c = 0 THEN FZero
             ELSE IF c > 0 THEN Round(x.s, BSub(X, Y), e)
             ELSE Round(y.s, BSub(Y, X), e)
             : c \in {BCmp(X, Y)} })

\* x0 + y0
FAdd(x0, y0) ==
  Val({ IF IsZero(x) THEN y
        ELSE IF IsZero(y) THEN x
        ELSE IF x.e - y.e > AlignGap THEN x
        ELSE IF y.e - x.e > AlignGap THEN y
        ELSE IF x.e < y.e
        THEN AddAligned(x, y, x.m, BShl(y.m, y.e - x.e), x.e)
        ELSE AddAligned(x, y, BShl(x.m, x.e - y.e), y.m, y.e)
        : x \in {x0}, y \in {y0} })

\* x - y
FSub(x, y) == FAdd(x, FNeg(y))

\* x0 * y0
FMul(x0, y0) ==
  Val({ IF IsZero(x) \/ IsZero(y) THEN FZero
        ELSE Round((x.s + y.s) % 2, BMul(x.m, y.m), x.e + y.e)
        : x \in {x0}, y \in {y0} })

\* The quotient is computed to 60 places past the mantissas' ratio.
QuotBits == 60

\* x0 / y0, for nonzero y0: floor(mx * 2^60 / my) and a sticky bit, rounded
FDiv(x0, y0) ==
  Val({ IF IsZero(x) THEN FZero
        ELSE Val({ Round((x.s + y.s) % 2,
                         BAdd(BMulSmall(d.q, 2),
                              IF d.r = <<>> THEN <<>> ELSE <<1>>),
                         x.e - y.e - QuotBits - 1)
                   : d \in {BDivMod(BShl(x.m, QuotBits), y.m)} })
        : x \in {x0}, y \in {y0} })

\* C's fmod(x0, w0), w0 nonzero: exact, with the sign of x0
FFmod(x0, w0) ==
  Val({ IF IsZero(x) THEN FZero
        ELSE IF MagCmp(x, w) < 0 THEN x
        ELSE IF x.e < w.e
        THEN Round(x.s, BDivMod(x.m, BShl(w.m, w.e - x.e)).r, x.e)
        ELSE Round(x.s, BDivMod(BShl(x.m, x.e - w.e), w.m).r, w.e)
        : x \in {x0}, w \in {w0} })

\* Python's x % w0 on floats (float_rem): the result takes the sign of w0
FMod(x, w0) ==
  Val({ IF IsZero(mod) THEN FZero
        ELSE IF mod.s # w.s THEN FAdd(mod, w)
        ELSE mod
        : mod \in {FFmod(x, w0)}, w \in {w0} })

\* The float of the decimal literal num/den (both exact as floats)
Dec(num, den) == FDiv(FromInt(num), FromInt(den))

(***************************************************************************)
(* The simulator object.  The fields keep their names; now is the wall     *)
(* clock that time.time() reads, in clock ticks; ret is what the last call *)
(* of update_simulation returned, <<output, error>>, or <<>> before the    *)
(* first call; op is the last step taken; nticks counts the Running        *)
(* updates since the last reset and bounds the runs.                       *)
(***************************************************************************)
VARIABLES current_heading, integral, prev_error, start_time,
          simulation_running, dt, time_series, error_series, output_series,
          heading_series, desired_series, max_turn_rate, kp, ki, kd,
          desired_heading, now, ret, op, nticks

series == <<time_series, error_series, output_series, heading_series,
            desired_series>>

gains == <<kp, ki, kd, desired_heading>>

vars == <<current_heading, integral, prev_error, start_time,
          simulation_running, dt, max_turn_rate, series, gains, now, ret,
          op, nticks>>

F0 == FZero

F180 == FromInt(180)

F360 == FromInt(360)

\* while error > 180: error -= 360
RECURSIVE WrapDown(_)
WrapDown(e0) ==
  Val({ IF FGt(e, F180) THEN WrapDown(FSub(e, F360)) ELSE e : e \in {e0} })

\* while error < -180: error += 360
RECURSIVE WrapUp(_)
WrapUp(e0) ==
  Val({ IF FLt(e, FNeg(F180)) THEN WrapUp(FAdd(e, F360)) ELSE e
        : e \in {e0} })

\* error = desired - current, then the two loops
WrapError(desired, current) == WrapUp(WrapDown(FSub(desired, current)))

\* Python's min(a0, b0) and max(a0, b0)
FMin(a0, b0) == Val({ IF FLt(b, a) THEN b ELSE a : a \in {a0}, b \in {b0} })

FMax(a0, b0) == Val({ IF FGt(b, a) THEN b ELSE a : a \in {a0}, b \in {b0} })

\* A clamp that lets the output through
ClampOff(m, o) == o

\* max(-max_turn_rate, min(max_turn_rate, output))
Clamp(m, o) == FMax(FNeg(m), FMin(m, o))

\* The sum without its proportional term
PidSumNoKp(error, integ, derivative) ==
  FAdd(FMul(ki, integ), FMul(kd, derivative))

\* The sum with its sign turned
PidSumNegated(error, integ, derivative) ==
  FNeg(FAdd(FAdd(FMul(kp, error), FMul(ki, integ)), FMul(kd, derivative)))

\* kp * error + ki * integral + kd * derivative
PidSum(error, integ, derivative) ==
  FAdd(FAdd(FMul(kp, error), FMul(ki, integ)), FMul(kd, derivative))

\* calculate_pid_output accumulating error instead of error * dt
CalculatePidOutputNoDt ==
  Val({ Val({ [integral |-> integ, prev_error |-> error,
               output |-> Clamp(max_turn_rate,
                                FAdd(FAdd(FMul(kp, error), FMul(ki, integ)),
                                     FMul(kd, FDiv(FSub(error, prev_error),
                                                   dt)))),
               error |-> error]
              : integ \in {FAdd(integral, error)} })
        : error \in {WrapError(desired_heading, current_heading)} })

\* calculate_pid_output with the integral held while the output saturates
CalculatePidOutputAntiWindup ==
  Val({ Val({ Val({ [integral |-> IF out = raw THEN integ ELSE integral,
                     prev_error |-> error, output |-> out, error |-> error]
                    : out \in {Clamp(max_turn_rate, raw)} })
              : integ \in {FAdd(integral, FMul(error, dt))},
                raw \in {FAdd(FAdd(FMul(kp, error),
                                   FMul(ki, FAdd(integral, FMul(error, dt)))),
                              FMul(kd, FDiv(FSub(error, prev_error), dt)))} })
        : error \in {WrapError(desired_heading, current_heading)} })

\* calculate_pid_output without its last assignment, prev_error = error
CalculatePidOutputKeepsPrev ==
  Val({ Val({ [integral |-> integ, prev_error |-> prev_error,
               output |-> Clamp(max_turn_rate,
                                PidSum(error, integ,
                                       FDiv(FSub(error, prev_error), dt))),
               error |-> error]
              : integ \in {FAdd(integral, FMul(error, dt))} })
        : error \in {WrapError(desired_heading, current_heading)} })

\* calculate_pid_output: the new integral and prev_error, and the pair
\* returned
CalculatePidOutput ==
  Val({ Val({ [integral |-> integ, prev_error |-> error,
               output |-> Clamp(max_turn_rate,
                                PidSum(error, integ,
                                       FDiv(FSub(error, prev_error), dt))),
               error |-> error]
              : integ \in {FAdd(integral, FMul(error, dt))} })
        : error \in {WrapError(desired_heading, current_heading)} })

\* A paused update that shows the error of the last Running update again
PausedOutputStale ==
  <<Clamp(max_turn_rate,
          FAdd(FMul(kp, prev_error), FMul(ki, integral))),
    prev_error>>

\* update_simulation when paused: the pair returned
PausedOutput ==
  Val({ <<Clamp(max_turn_rate,
                FAdd(FAdd(FMul(kp, error), FMul(ki, integral)),
                     FDiv(FMul(kd, FSub(error, prev_error)), dt))),
          error>>
        : error \in {WrapError(desired_heading, current_heading)} })

\* self.current_heading % 360
Normalize(h) == FMod(h, F360)

HistoryCap == 500

\* A truncation that keeps the oldest samples, s[:500]
TruncateFront(s0) ==
  Val({ IF Len(s) > HistoryCap THEN SubSeq(s, 1, HistoryCap) ELSE s
        : s \in {s0} })

\* s[-500:] when len(s) > 500
Truncate(s0) ==
  Val({ IF Len(s) > HistoryCap
        THEN SubSeq(s, Len(s) - HistoryCap + 1, Len(s))
        ELSE s
        : s \in {s0} })

Init ==
  /\ current_heading = F0
  /\ integral = F0
  /\ prev_error = F0
  /\ now = 0
  /\ start_time = 0
  /\ simulation_running = TRUE
  /\ dt = Dec(1, 10)
  /\ time_series = <<>>
  /\ error_series = <<>>
  /\ output_series = <<>>
  /\ heading_series = <<>>
  /\ desired_series = <<>>
  /\ max_turn_rate = FromInt(45)
  /\ kp = FromInt(1)
  /\ ki = F0
  /\ kd = Dec(1, 10)
  /\ desired_heading = FromInt(90)
  /\ ret = <<>>
  /\ op = "init"
  /\ nticks = 0

\* A parameter write that also restarts the integral
SetParametersClears(p) ==
  /\ kp' = p.kp
  /\ ki' = p.ki
  /\ kd' = p.kd
  /\ desired_heading' = p.desired
  /\ integral' = F0
  /\ op' = "setParameters"
  /\ UNCHANGED <<current_heading, prev_error, start_time,
                 simulation_running, dt, max_turn_rate, series, now, ret,
                 nticks>>

\* main: the slider values are written to the simulator
SetParameters(p) ==
  /\ kp' = p.kp
  /\ ki' = p.ki
  /\ kd' = p.kd
  /\ desired_heading' = p.desired
  /\ op' = "setParameters"
  /\ UNCHANGED <<current_heading, integral, prev_error, start_time,
                 simulation_running, dt, max_turn_rate, series, now, ret,
                 nticks>>

\* A reset that leaves start_time alone
ResetKeepsClock ==
  /\ current_heading' = F0
  /\ integral' = F0
  /\ prev_error' = F0
  /\ time_series' = <<>>
  /\ error_series' = <<>>
  /\ output_series' = <<>>
  /\ heading_series' = <<>>
  /\ desired_series' = <<>>
  /\ op' = "reset"
  /\ nticks' = 0
  /\ UNCHANGED <<start_time, simulation_running, dt, max_turn_rate, gains,
                 now, ret>>

\* A reset that forgets to clear time_series
ResetKeepsTimes ==
  /\ current_heading' = F0
  /\ integral' = F0
  /\ prev_error' = F0
  /\ start_time' = now
  /\ error_series' = <<>>
  /\ output_series' = <<>>
  /\ heading_series' = <<>>
  /\ desired_series' = <<>>
  /\ op' = "reset"
  /\ nticks' = 0
  /\ UNCHANGED <<time_series, simulation_running, dt, max_turn_rate, gains,
                 now, ret>>

\* reset_simulation
Reset ==
  /\ current_heading' = F0
  /\ integral' = F0
  /\ prev_error' = F0
  /\ start_time' = now
  /\ time_series' = <<>>
  /\ error_series' = <<>>
  /\ output_series' = <<>>
  /\ heading_series' = <<>>
  /\ desired_series' = <<>>
  /\ op' = "reset"
  /\ nticks' = 0
  /\ UNCHANGED <<simulation_running, dt, max_turn_rate, gains, now, ret>>

\* A Pause/Resume button that also clears the integral
PauseResumeClears ==
  /\ simulation_running' = ~simulation_running
  /\ integral' = F0
  /\ op' = IF simulation_running THEN "pause" ELSE "resume"
  /\ UNCHANGED <<current_heading, prev_error, start_time, dt,
                 max_turn_rate, series, gains, now, ret, nticks>>

\* main: the Pause/Resume button flips the flag
PauseResume ==
  /\ simulation_running' = ~simulation_running
  /\ op' = IF simulation_running THEN "pause" ELSE "resume"
  /\ UNCHANGED <<current_heading, integral, prev_error, start_time, dt,
                 max_turn_rate, series, gains, now, ret, nticks>>

\* A paused update that still records a sample
PausedUpdateAppends ==
  /\ ~simulation_running
  /\ \E r \in {PausedOutput} :
       /\ ret' = r
       /\ time_series' = Append(time_series, now - start_time)
       /\ error_series' = Append(error_series, r[2])
       /\ output_series' = Append(output_series, r[1])
       /\ heading_series' = Append(heading_series, current_heading)
       /\ desired_series' = Append(desired_series, desired_heading)
  /\ op' = "tick"
  /\ UNCHANGED <<current_heading, integral, prev_error, start_time,
                 simulation_running, dt, max_turn_rate, gains, now, nticks>>

\* update_simulation when not simulation_running
PausedUpdate ==
  /\ ~simulation_running
  /\ ret' = PausedOutput
  /\ op' = "tick"
  /\ UNCHANGED <<current_heading, integral, prev_error, start_time,
                 simulation_running, dt, max_turn_rate, series, gains, now,
                 nticks>>

\* A Running update that forgets to trim desired_series
RunningUpdateNoTrim ==
  /\ simulation_running
  /\ \E pid \in {CalculatePidOutput} :
       \E h \in {Normalize(FAdd(current_heading, FMul(pid.output, dt)))} :
         /\ integral' = pid.integral
         /\ prev_error' = pid.prev_error
         /\ current_heading' = h
         /\ time_series' = Truncate(Append(time_series, now - start_time))
         /\ error_series' = Truncate(Append(error_series, pid.error))
         /\ output_series' = Truncate(Append(output_series, pid.output))
         /\ heading_series' = Truncate(Append(heading_series, h))
         /\ desired_series' = Append(desired_series, desired_heading)
         /\ ret' = <<pid.output, pid.error>>
  /\ op' = "tick"
  /\ nticks' = nticks + 1
  /\ UNCHANGED <<start_time, simulation_running, dt, max_turn_rate, gains,
                 now>>

\* update_simulation when simulation_running
RunningUpdate ==
  /\ simulation_running
  /\ \E pid \in {CalculatePidOutput} :
       \E h \in {Normalize(FAdd(current_heading, FMul(pid.output, dt)))} :
         /\ integral' = pid.integral
         /\ prev_error' = pid.prev_error
         /\ current_heading' = h
         /\ time_series' = Truncate(Append(time_series, now - start_time))
         /\ error_series' = Truncate(Append(error_series, pid.error))
         /\ output_series' = Truncate(Append(output_series, pid.output))
         /\ heading_series' = Truncate(Append(heading_series, h))
         /\ desired_series' =
              Truncate(Append(desired_series, desired_heading))
         /\ ret' = <<pid.output, pid.error>>
  /\ op' = "tick"
  /\ nticks' = nticks + 1
  /\ UNCHANGED <<start_time, simulation_running, dt, max_turn_rate, gains,
                 now>>

\* update_simulation, with at most T Running updates between resets
UpdateSimulation(T) ==
  \/ PausedUpdate
  \/ nticks < T /\ RunningUpdate

\* main: time.sleep(0.1) between reruns; the clock is followed up to N
Sleep(N) ==
  /\ now < N
  /\ now' = now + 1
  /\ op' = "sleep"
  /\ UNCHANGED <<current_heading, integral, prev_error, start_time,
                 simulation_running, dt, max_turn_rate, series, gains, ret,
                 nticks>>

\* A setting of the four sliders
Param(a, b, c, d) == [kp |-> a, ki |-> b, kd |-> c, desired |-> d]

(***************************************************************************)
(* Spec: the simulator driven in any order with the slider settings of     *)
(* Params; the clock stands still.                                         *)
(***************************************************************************)
MaxTicks == 3

Params ==
  { Param(FromInt(1), F0, Dec(1, 10), FromInt(90)),
    Param(FromInt(1), F0, F0, FromInt(90)),
    Param(FromInt(1), F0, F0, FromInt(350)),
    Param(FromInt(1), F0, F0, FromInt(179)),
    Param(FromInt(10), FromInt(1), Dec(1, 10), FromInt(270)) }

Next ==
  \/ \E p \in Params : SetParameters(p)
  \/ Reset
  \/ PauseResume
  \/ UpdateSimulation(MaxTicks)

Spec == Init /\ [][Next]_vars

(***************************************************************************)
(* SpecFloat: derivative-only gains and two setpoints, far enough for the  *)
(* heading to wrap past 360 and come back.                                 *)
(***************************************************************************)
FloatTicks == 4

FloatParams ==
  { Param(F0, F0, Dec(1, 10), FromInt(181)),
    Param(F0, F0, Dec(1, 10), F0) }

NextFloat ==
  \/ \E p \in FloatParams : SetParameters(p)
  \/ Reset
  \/ PauseResume
  \/ UpdateSimulation(FloatTicks)

SpecFloat == Init /\ [][NextFloat]_vars

(***************************************************************************)
(* Claims                                                                  *)
(***************************************************************************)

\* The output and the error the last call of update_simulation returned
LastOutput == ret[1]

LastError == ret[2]

\* C1: the output returned by update_simulation, Running or Paused, lies
\* between -max_turn_rate and max_turn_rate
C1_OutputClamped ==
  ret # <<>> =>
    /\ FGe(LastOutput, FNeg(max_turn_rate))
    /\ FLe(LastOutput, max_turn_rate)

\* C1 happens: a Paused update and a Running update before it both
\* returned a saturated output
C1_Witness ==
  /\ op = "tick"
  /\ ~simulation_running
  /\ LastOutput = max_turn_rate
  /\ output_series # <<>>
  /\ output_series[Len(output_series)] = FNeg(max_turn_rate)

\* C2: the heading lies in [0, 360) after every step
C2_HeadingInRange ==
  /\ FGe(current_heading, F0)
  /\ FLt(current_heading, F360)

\* C3: the error returned lies in (-180, 180]; -180 is never returned
C3_ErrorHalfOpen ==
  ret # <<>> =>
    /\ FGt(LastError, FNeg(F180))
    /\ FLe(LastError, F180)

(***************************************************************************)
(* SpecClock: as Spec, with the wall clock running: main sleeps between    *)
(* two calls of update_simulation.                                         *)
(***************************************************************************)
ClockTicks == 2

MaxNow == 2

ClockParams ==
  { Param(FromInt(1), F0, Dec(1, 10), FromInt(90)),
    Param(FromInt(2), Dec(1, 2), Dec(1, 10), FromInt(350)) }

NextClock ==
  \/ \E p \in ClockParams : SetParameters(p)
  \/ Reset
  \/ PauseResume
  \/ UpdateSimulation(ClockTicks)
  \/ Sleep(MaxNow)

SpecClock == Init /\ [][NextClock]_vars

\* time.time() - self.start_time
Elapsed == now - start_time

\* The history is empty
HistoryEmpty == series = <<<<>>, <<>>, <<>>, <<>>, <<>>>>

\* C4: while Paused, the reruns of main (a call of update_simulation, then
\* the sleep) leave the heading, the integral, prev_error, the elapsed
\* clock and the history as they were
C4_PausedTicksFreeze ==
  [][(~simulation_running /\ op' \in {"tick", "sleep"}) =>
       /\ current_heading' = current_heading
       /\ integral' = integral
       /\ prev_error' = prev_error
       /\ Elapsed' = Elapsed
       /\ series' = series]_vars

\* C6: reset zeroes the heading, the integral and prev_error, empties the
\* history and restarts the elapsed clock at 0; it leaves the running flag,
\* the gains, the setpoint, dt and max_turn_rate alone; a second reset right
\* after changes nothing more
C6_Reset ==
  [][op' = "reset" =>
       /\ current_heading' = F0
       /\ integral' = F0
       /\ prev_error' = F0
       /\ HistoryEmpty'
       /\ Elapsed' = 0
       /\ UNCHANGED <<simulation_running, kp, ki, kd, desired_heading, dt,
                      max_turn_rate>>
       /\ op = "reset" =>
            /\ UNCHANGED <<current_heading, integral, prev_error, series>>
            /\ Elapsed' = Elapsed]_vars

\* C6 happens: a reset of a paused simulator that had run, with changed
\* gains and the clock advanced
C6_Witness ==
  /\ op = "reset"
  /\ now > 0
  /\ start_time = now
  /\ ~simulation_running
  /\ kp = FromInt(2)
  /\ ret # <<>>

\* The state C7 speaks of
ZeroedAndPaused ==
  /\ ~simulation_running
  /\ current_heading = F0
  /\ HistoryEmpty

\* C7: a reset of a Paused simulator leaves the heading 0 and the history
\* empty, and every update after it, as long as the simulator stays Paused,
\* keeps them so
C7_PausedResetStaysZero ==
  [][/\ (~simulation_running /\ op' = "reset") => ZeroedAndPaused'
     /\ (ZeroedAndPaused /\ op' = "tick") => ZeroedAndPaused']_vars

\* C7 happens: a paused update after a reset that came after the clock
\* had advanced, with a setpoint that asks for a turn
C7_Witness ==
  /\ op = "tick"
  /\ ZeroedAndPaused
  /\ start_time > 0
  /\ LastOutput # F0

\* C8: a fresh simulator is Running; the button moves Running to Paused and
\* Paused to Running and changes nothing else
C8_PauseResume ==
  /\ [](op = "init" => simulation_running)
  /\ [][op' \in {"pause", "resume"} =>
          /\ op' = "pause" => simulation_running /\ ~simulation_running'
          /\ op' = "resume" => ~simulation_running /\ simulation_running'
          /\ UNCHANGED <<current_heading, integral, prev_error, start_time,
                         dt, max_turn_rate, series, gains>>]_vars

\* C8 happens: a resume of a simulator with a history and an integral
C8_Witness ==
  /\ op = "resume"
  /\ simulation_running
  /\ integral # F0
  /\ time_series # <<>>

\* C9: scenario A: the first Running update from the fresh or reset state
\* with kp = 1, ki = 0, kd = 0 and a setpoint of 90 returns error 90 and
\* output 45 and leaves the heading at 4.5
C9_ScenarioA ==
  ( /\ op = "tick"
    /\ simulation_running
    /\ Len(time_series) = 1
    /\ dt = Dec(1, 10)
    /\ max_turn_rate = FromInt(45)
    /\ gains = <<FromInt(1), F0, F0, FromInt(90)>> )
  => /\ LastError = FromInt(90)
     /\ LastOutput = FromInt(45)
     /\ current_heading = Dec(9, 2)

\* C9 happens: that first update has just returned
C9_Witness ==
  /\ op = "tick"
  /\ simulation_running
  /\ Len(time_series) = 1
  /\ gains = <<FromInt(1), F0, F0, FromInt(90)>>
  /\ current_heading = Dec(9, 2)

(***************************************************************************)
(* SpecD: the simulator object driven directly, as a test would, with      *)
(* integral-only gains and a setpoint that is either 10 ahead of the       *)
(* heading or fixed.                                                       *)
(***************************************************************************)
DTicks == 5

F10 == FromInt(10)

DSetpoints == {FAdd(current_heading, F10), FromInt(180)}

NextD ==
  \/ \E d \in DSetpoints : SetParameters(Param(F0, FromInt(1), F0, d))
  \/ PauseResume
  \/ UpdateSimulation(DTicks)

SpecD == Init /\ [][NextD]_vars

\* C10: scenario D: with kp = 0, ki = 1, kd = 0 and dt = 0.1, after five
\* Running updates from a zero integral whose error was 10 each time, the
\* integral is 5.0 and the outputs were 1, 2, 3, 4, 5
C10_ScenarioD ==
  ( /\ Len(error_series) = 5
    /\ error_series = <<F10, F10, F10, F10, F10>>
    /\ dt = Dec(1, 10)
    /\ <<kp, ki, kd>> = <<F0, FromInt(1), F0>> )
  => /\ integral = FromInt(5)
     /\ output_series = <<FromInt(1), FromInt(2), FromInt(3), FromInt(4),
                          FromInt(5)>>

\* C10 happens: the fifth of those updates has just returned
C10_Witness ==
  /\ op = "tick"
  /\ simulation_running
  /\ error_series = <<F10, F10, F10, F10, F10>>
  /\ <<kp, ki, kd>> = <<F0, FromInt(1), F0>>
  /\ LastOutput = FromInt(5)
  /\ current_heading = Dec(3, 2)

(***************************************************************************)
(* SpecLong: main's loop left to run with the default settings: an update, *)
(* then the sleep, long enough to fill the history.                        *)
(***************************************************************************)
LongTicks == 502

NextLong ==
  \/ nticks <= now /\ nticks < LongTicks /\ RunningUpdate
  \/ now < nticks /\ Sleep(LongTicks)

SpecLong == Init /\ [][NextLong]_vars

\* C5: no series is ever longer than 500; an update that appends to a full
\* history drops exactly the oldest sample: the others move up one place,
\* in order, and the new sample comes last
C5_HistoryCapped ==
  /\ [](\A i \in 1..5 : Len(series[i]) <= HistoryCap)
  /\ [][(Len(time_series) = HistoryCap /\ op' = "tick"
         /\ simulation_running) =>
          \A i \in 1..5 :
            /\ Len(series'[i]) = HistoryCap
            /\ \A k \in 1..(HistoryCap - 1) : series'[i][k] = series[i][k + 1]
            /\ series'[i][HistoryCap] =
                 <<now - start_time, ret'[2], ret'[1], current_heading',
                   desired_heading>>[i]]_vars

\* C5 happens: the history is full and its oldest sample is no longer the
\* first one taken
C5_Witness ==
  /\ Len(time_series) = HistoryCap
  /\ nticks > HistoryCap
  /\ time_series[1] > 0
  /\ time_series[HistoryCap] = time_series[1] + HistoryCap - 1

\* C11: a parameter write changes the gains and the setpoint and nothing
\* else: the heading, the integral, prev_error, the running flag and the
\* history stay; the update that follows it computes its error from the new
\* setpoint and its output from the new gains
C11_SetParametersFrame ==
  [][/\ op' = "setParameters" =>
          UNCHANGED <<current_heading, integral, prev_error,
                      simulation_running, series>>
     /\ (op = "setParameters" /\ op' = "tick") =>
          /\ LastError' = WrapError(desired_heading, current_heading)
          /\ LastOutput' = IF simulation_running
                           THEN CalculatePidOutput.output
                           ELSE PausedOutput[1]]_vars

\* C11 happens: two Running updates with a parameter write between them
\* that changed the setpoint; the second returned the error against the new
\* setpoint
C11_Witness ==
  /\ op = "tick"
  /\ simulation_running
  /\ Len(desired_series) = 2
  /\ desired_series[1] # desired_series[2]
  /\ integral # F0
  /\ LastError = WrapError(desired_series[2], heading_series[1])

\* The last update returned an output at the clamp
Saturated == LastOutput \in {max_turn_rate, FNeg(max_turn_rate)}

\* C12: every Running update adds error * dt to the integral, also when its
\* output is clamped; an error on the integral's side of zero moves the
\* integral further from zero
C12_NoAntiWindup ==
  [][(simulation_running /\ op' = "tick") =>
       /\ integral' = FAdd(integral, FMul(LastError', dt))
       /\ (FGt(LastError', F0) /\ FGe(integral, F0)) =>
            FGt(integral', integral)
       /\ (FLt(LastError', F0) /\ FLe(integral, F0)) =>
            FLt(integral', integral)]_vars

\* C12 happens: three Running updates in a row returned the clamped
\* output and the integral holds the sum of their three error * dt
C12_Witness ==
  /\ op = "tick"
  /\ simulation_running
  /\ Saturated
  /\ output_series = <<LastOutput, LastOutput, LastOutput>>
  /\ integral = FAdd(FAdd(FMul(error_series[1], dt),
                          FMul(error_series[2], dt)),
                     FMul(error_series[3], dt))
  /\ FGt(integral, FMul(error_series[1], dt))

\* C13: a Paused update returns the error wrapped from the live setpoint
\* and heading, and the output
\* clamp(kp * error + ki * integral + kd * (error - prev_error) / dt)
\* with the integral and prev_error as they stand
C13_PausedPair ==
  [][(~simulation_running /\ op' = "tick") =>
       /\ LastError' = WrapError(desired_heading, current_heading)
       /\ LastOutput' =
            Clamp(max_turn_rate,
                  FAdd(FAdd(FMul(kp, LastError'), FMul(ki, integral)),
                       FDiv(FMul(kd, FSub(LastError', prev_error)), dt)))
       /\ UNCHANGED <<integral, prev_error>>]_vars

\* C13 happens: a Paused update after a parameter write that moved the
\* setpoint since the last Running update; the pair follows the new
\* setpoint and is not clamped
C13_Witness ==
  /\ op = "tick"
  /\ ~simulation_running
  /\ desired_series # <<>>
  /\ desired_heading # desired_series[Len(desired_series)]
  /\ LastError = WrapError(desired_heading, current_heading)
  /\ LastError #
       WrapError(desired_series[Len(desired_series)], current_heading)
  /\ ~Saturated
  /\ LastOutput # F0

\* C14: prev_error is 0 at the start and after a reset, is the error
\* returned after a Running update, and so lies in (-180, 180] in every
\* state
C14_PrevErrorHalfOpen ==
  /\ op \in {"init", "reset"} => prev_error = F0
  /\ (op = "tick" /\ simulation_running) => prev_error = LastError
  /\ FGt(prev_error, FNeg(F180))
  /\ FLe(prev_error, F180)

(***************************************************************************)
(* SpecLoop: main's rerun loop with the default settings: the buttons are  *)
(* read, update_simulation is called, then main sleeps.  The run is long   *)
(* enough to fill the history; the buttons are pressed in its last         *)
(* reruns.  The wall clock never steps back.                               *)
(***************************************************************************)
LoopNow == 503

ButtonWindow == 3

NextLoop ==
  \/ op # "tick" /\ UpdateSimulation(LoopNow + 1)
  \/ op = "tick" /\ Sleep(LoopNow)
  \/ op # "tick" /\ now >= LoopNow - ButtonWindow /\ Reset
  \/ op # "tick" /\ now >= LoopNow - ButtonWindow /\ PauseResume

SpecLoop == Init /\ [][NextLoop]_vars

\* The entries of s are in non-decreasing order
NonDecreasing(s) == \A i \in 1..(Len(s) - 1) : s[i] <= s[i + 1]

\* C15: the elapsed clock never decreases except by a reset, which puts it
\* at 0 and empties the history; the times in the history are in
\* non-decreasing order and none is later than the elapsed clock
C15_TimeOrdered ==
  /\ [](/\ NonDecreasing(time_series)
        /\ \A i \in 1..Len(time_series) : time_series[i] <= Elapsed)
  /\ [][IF op' = "reset"
        THEN Elapsed' = 0 /\ HistoryEmpty'
        ELSE Elapsed' >= Elapsed]_vars

\* C15 happens: the history was filled and evicted from, then reset, and
\* holds two samples taken since, at different times
C15_Witness ==
  /\ op = "tick"
  /\ start_time > HistoryCap
  /\ Len(time_series) = 2
  /\ time_series[1] < time_series[2]

\* The length a series of length n has after one more sample
Grown(n) == IF n < HistoryCap THEN n + 1 ELSE HistoryCap

\* C16: the five series always have the same length; a Running update
\* makes each one longer by one, up to the cap; a reset empties them all;
\* no other step changes any of them
C16_SeriesInStep ==
  /\ [](\A i \in 1..5 : Len(series[i]) = Len(time_series))
  /\ [][IF op' = "tick" /\ simulation_running
        THEN \A i \in 1..5 : Len(series'[i]) = Grown(Len(series[i]))
        ELSE IF op' = "reset"
        THEN HistoryEmpty'
        ELSE series' = series]_vars

\* C16 happens: a Running update has just trimmed the five series
C16_Witness ==
  /\ op = "tick"
  /\ simulation_running
  /\ \A i \in 1..5 : Len(series[i]) = HistoryCap
  /\ time_series[1] > 0
  /\ heading_series[HistoryCap] = current_heading

\* C17: while the history is not empty its newest heading is the current
\* heading and its newest error is prev_error; after a reset the history
\* is empty and both are 0
C17_NewestSampleLive ==
  /\ time_series # <<>> =>
       /\ heading_series[Len(heading_series)] = current_heading
       /\ error_series[Len(error_series)] = prev_error
  /\ op = "reset" =>
       /\ HistoryEmpty
       /\ current_heading = F0
       /\ prev_error = F0

\* C17 happens: after two Running updates, a pause and a parameter write,
\* a Paused update showed another error than the newest sample's
C17_Witness ==
  /\ op = "tick"
  /\ ~simulation_running
  /\ Len(error_series) = 2
  /\ desired_heading # desired_series[2]
  /\ prev_error = error_series[2]
  /\ LastError # prev_error
  /\ current_heading = heading_series[2]
  /\ current_heading # F0

(***************************************************************************)
(* SpecP: proportional-only gains from the slider grid, the setpoint       *)
(* chosen in the first updates of a run and then held; runs long enough    *)
(* for the heading to settle.                                              *)
(***************************************************************************)
PTicks == 48

PSwitch == 1

PParams ==
  { Param(Dec(49, 10), F0, F0, FromInt(359)),
    Param(FromInt(1), F0, F0, FromInt(350)),
    Param(FromInt(10), F0, F0, FromInt(3)),
    Param(FromInt(5), F0, F0, FromInt(180)) }

NextP ==
  \/ nticks <= PSwitch /\ \E p \in PParams : SetParameters(p)
  \/ nticks < PTicks /\ RunningUpdate
  \/ Reset

SpecP == Init /\ [][NextP]_vars

\* -1, 0 or 1 as x is negative, zero or positive
Sgn(x) == IF IsZero(x) THEN 0 ELSE IF x.s = 1 THEN -1 ELSE 1

\* |x|
FAbs(x) == IF IsZero(x) THEN x ELSE [x EXCEPT !.s = 0]

\* The gains are proportional-only with 0 < kp * dt <= 1
ProportionalOnly ==
  /\ ki = F0
  /\ kd = F0
  /\ FGt(FMul(kp, dt), F0)
  /\ FLe(FMul(kp, dt), FromInt(1))

\* The wrapped error of the heading h against the setpoint
ErrorAt(h) == WrapError(desired_heading, h)

=============================================================================
